---- MODULE Spec2Model ----
(***************************************************************************)
(* Markdown to HTML converter (arinamcnulty/markdown-parser).              *)
(*                                                                         *)
(* A text is a sequence of one-character strings.  The parse result is a   *)
(* tree of pairs [rule, s, e, kids]: the rule that matched, the span       *)
(* s..e-1 of the input it matched and the pairs of the rules matched       *)
(* inside it (pest's Pair: as_rule, as_str, into_inner).                   *)
(*                                                                         *)
(* The renderer is src/src/lib.rs.  grammar.pest is not part of the        *)
(* sources at hand: the grammar rules below follow the written             *)
(* specification (section 4.1) and the rule names, pair shapes and spans   *)
(* that src/tests/grammar_tests.rs and src/src/lib.rs pin down.            *)
(*                                                                         *)
(* Rendered HTML is a sequence of pieces [k, s]: k = "tpl" for a literal   *)
(* of a format string of lib.rs, "usr" for a character copied from the     *)
(* input, "url" for a character of a link or image target copied from the  *)
(* input, "ent" for an entity written by html_escape::encode_text.         *)
(***************************************************************************)
EXTENDS Integers, Sequences, FiniteSets, TLC

\* ------------------------------------------------------------ texts
NL == "\n"
SP == " "
BS == "\\"
DQ == "\""
\* the backquote character (a TLA+ string cannot hold it)
BT == "backquote"

EOIChar == "<EOI>"

At(in, p) == IF p >= 1 /\ p <= Len(in) THEN in[p] ELSE EOIChar

StartsWith(in, p, lit) ==
    /\ p + Len(lit) - 1 <= Len(in)
    /\ \A i \in 1..Len(lit) : in[p + i - 1] = lit[i]

Min(S) == CHOOSE x \in S : \A y \in S : x <= y

\* First position q >= p holding a character of S, or the end of input.
ScanUntil(in, p, S) ==
    Min({q \in p..(Len(in) + 1) : q = Len(in) + 1 \/ in[q] \in S})

\* First position q >= p holding a character outside S, or the end of input.
ScanWhile(in, p, S) ==
    Min({q \in p..(Len(in) + 1) : q = Len(in) + 1 \/ in[q] \notin S})

\* ------------------------------------------------------------ pairs
Node(rule, s, e, kids) == [rule |-> rule, s |-> s, e |-> e, kids |-> kids]

Ok(p, ns) == [ok |-> TRUE, p |-> p, ns |-> ns]
Fail == [ok |-> FALSE, p |-> 0, ns |-> <<>>]

\* Pair::as_str
as_str(in, n) == SubSeq(in, n.s, n.e - 1)

\* Pairs::as_str: from the start of the first pair to the end of the last,
\* the empty string when there is no pair.
pairs_as_str(in, ns) ==
    IF ns = <<>> THEN <<>> ELSE SubSeq(in, ns[1].s, ns[Len(ns)].e - 1)

\* ------------------------------------------------------------ characters
Digits == {"1", "2"}
HSpace == {SP, "\t"}
Whitespace == {SP, "\t", NL, "\r"}

\* ASCII punctuation that occurs in the inputs of this model.
Punct == {"#", "*", "_", "~", BT, "[", "]", "(", ")", "!", ">", "-", BS,
          "<", "&", DQ, "'", ".", ":", "/"}

\* characters plain_char rejects (grammar_tests.rs check_plain_char)
MarkerChars == {"*", "_", "~", "[", BS, BT, "!"}

\* ------------------------------------------------------------ inline grammar
\* the rule named r applied at position p (defined after the rules)
RECURSIVE Match(_, _, _)

escape_sequence(in, p) ==
    IF At(in, p) = BS /\ At(in, p + 1) \in Punct
    THEN Ok(p + 2, <<Node("escape_sequence", p, p + 2,
                          <<Node("character", p + 1, p + 2, <<>>)>>)>>)
    ELSE Fail

\* open ~ content ~ close, content = (!close ~ !NEWLINE ~ ANY)+
Delimited(in, p, rule, crule, open, close) ==
    LET c == p + Len(open)
        q == Min({i \in c..(Len(in) + 1) :
                     i = Len(in) + 1 \/ in[i] = NL \/ StartsWith(in, i, close)})
    IN  IF StartsWith(in, p, open) /\ q > c /\ StartsWith(in, q, close)
        THEN Ok(q + Len(close),
                <<Node(rule, p, q + Len(close), <<Node(crule, c, q, <<>>)>>)>>)
        ELSE Fail

bold_formatting(in, p) ==
    Delimited(in, p, "bold_formatting", "bold_content", <<"*", "*">>, <<"*", "*">>)

underline_formatting(in, p) ==
    Delimited(in, p, "underline_formatting", "underline_content",
              <<"_", "_">>, <<"_", "_">>)

strikethrough_formatting(in, p) ==
    Delimited(in, p, "strikethrough_formatting", "strikethrough_content",
              <<"~", "~">>, <<"~", "~">>)

italic_formatting(in, p) ==
    LET a == Delimited(in, p, "italic_formatting", "italic_content", <<"*">>, <<"*">>)
    IN  IF a.ok THEN a
        ELSE Delimited(in, p, "italic_formatting", "italic_content", <<"_">>, <<"_">>)

\* text_formatting without its two double-delimiter alternatives tried first
text_formatting_single_first(in, p) ==
    LET i == Match("italic_formatting", in, p)
    IN  IF i.ok THEN i ELSE Match("strikethrough_formatting", in, p)

\* text_formatting = _{ bold | underline | strikethrough | italic }
text_formatting(in, p) ==
    LET b == Match("bold_formatting", in, p)
        u == Match("underline_formatting", in, p)
        s == Match("strikethrough_formatting", in, p)
    IN  IF b.ok THEN b
        ELSE IF u.ok THEN u
        ELSE IF s.ok THEN s
        ELSE Match("italic_formatting", in, p)

inline_code(in, p) ==
    LET q == ScanUntil(in, p + 1, {NL, BT})
    IN  IF At(in, p) = BT /\ q > p + 1 /\ At(in, q) = BT
        THEN Ok(q + 1, <<Node("inline_code", p, q + 1, <<>>)>>)
        ELSE Fail

\* rule+ where rule = { "\\" ~ closer | !closer ~ !NEWLINE ~ ANY }
\* (link_char, image_char, url_char)
RECURSIVE CharRun(_, _, _, _)
CharRun(in, p, rule, closer) ==
    IF At(in, p) = BS /\ At(in, p + 1) = closer
    THEN <<Node(rule, p, p + 2, <<>>)>> \o CharRun(in, p + 2, rule, closer)
    ELSE IF p <= Len(in) /\ in[p] \notin {closer, NL}
    THEN <<Node(rule, p, p + 1, <<>>)>> \o CharRun(in, p + 1, rule, closer)
    ELSE <<>>

\* open ~ first ~ "](" ~ second ~ ")"
Bracketed(in, p, rule, open, r1, c1, r2, c2) ==
    LET a  == p + Len(open)
        k1 == CharRun(in, a, c1, "]")
        b  == IF k1 = <<>> THEN a ELSE k1[Len(k1)].e
        k2 == CharRun(in, b + 2, c2, ")")
        c  == IF k2 = <<>> THEN b + 2 ELSE k2[Len(k2)].e
    IN  IF /\ StartsWith(in, p, open) /\ k1 # <<>>
           /\ StartsWith(in, b, <<"]", "(">>) /\ k2 # <<>>
           /\ At(in, c) = ")"
        THEN Ok(c + 1, <<Node(rule, p, c + 1,
                              <<Node(r1, a, b, k1), Node(r2, b + 2, c, k2)>>)>>)
        ELSE Fail

link(in, p) ==
    Bracketed(in, p, "link", <<"[">>, "link_content", "link_char", "link_url", "url_char")

image(in, p) ==
    Bracketed(in, p, "image", <<"!", "[">>, "image_alt", "image_char",
              "image_url", "url_char")

\* an inline construct other than plain text, in priority order
inline_construct(in, p) ==
    LET e == Match("escape_sequence", in, p)
        c == Match("inline_code", in, p)
        i == Match("image", in, p)
        l == Match("link", in, p)
    IN  IF e.ok THEN e
        ELSE IF c.ok THEN c
        ELSE IF i.ok THEN i
        ELSE IF l.ok THEN l
        ELSE Match("text_formatting", in, p)

plain_char(in, p) == p <= Len(in) /\ in[p] \notin MarkerChars \cup {NL}

\* a run of characters none of which starts an inline construct
plain_text(in, p) ==
    LET q == Min({i \in p..(Len(in) + 1) :
                     \/ i = Len(in) + 1
                     \/ in[i] = NL
                     \/ (~plain_char(in, i) /\ Match("inline_construct", in, i).ok)})
    IN  IF q > p THEN Ok(q, <<Node("plain_text", p, q, <<>>)>>) ELSE Fail

inline(in, p) ==
    LET c == IF At(in, p) \in MarkerChars THEN Match("inline_construct", in, p) ELSE Fail
    IN  IF c.ok THEN c ELSE Match("plain_text", in, p)

RECURSIVE Inlines(_, _)
Inlines(in, p) ==
    LET r == Match("inline", in, p)
    IN  IF r.ok THEN r.ns \o Inlines(in, r.p) ELSE <<>>

\* paragraph_text = { inline+ }
paragraph_text(in, p) ==
    LET ks == Inlines(in, p)
    IN  IF ks = <<>> THEN Fail
        ELSE Ok(ks[Len(ks)].e, <<Node("paragraph_text", p, ks[Len(ks)].e, ks)>>)

\* ------------------------------------------------------------ block grammar
LineEnd(in, p) == ScanUntil(in, p, {NL})
SkipHSpace(in, p) == ScanWhile(in, p, HSpace)
OptNewline(in, p) == IF At(in, p) = NL THEN p + 1 ELSE p

Hashes(n) == [i \in 1..n |-> "#"]

\* hN_heading = { "#"{N} ~ whitespace+ ~ (!NEWLINE ~ ANY)+ ~ NEWLINE? }
heading(in, p, n, rule) ==
    LET w == SkipHSpace(in, p + n)
        t == LineEnd(in, w)
    IN  IF StartsWith(in, p, Hashes(n)) /\ w > p + n /\ t > w
        THEN Ok(OptNewline(in, t), <<Node(rule, p, OptNewline(in, t), <<>>)>>)
        ELSE Fail

h1_heading(in, p) == heading(in, p, 1, "h1_heading")
h2_heading(in, p) == heading(in, p, 2, "h2_heading")
h3_heading(in, p) == heading(in, p, 3, "h3_heading")

\* document_heading = _{ h1_heading | h2_heading | h3_heading }
document_heading(in, p) ==
    LET a == Match("h1_heading", in, p)
        b == Match("h2_heading", in, p)
    IN  IF a.ok THEN a ELSE IF b.ok THEN b ELSE Match("h3_heading", in, p)

\* Three or more of one of - * _, then only whitespace to the end of the
\* line.  The whitespace that follows the run, line ends included, belongs
\* to the thematic break: in grammar_tests.rs check_markdown the block after
\* the break of "...\n___\n\nThis is..." is the paragraph.
thematic_break(in, p) ==
    LET c == At(in, p)
        r == ScanWhile(in, p, {c})
        w == SkipHSpace(in, r)
        e == ScanWhile(in, w, {NL})
    IN  IF c \in {"-", "*", "_"} /\ r - p >= 3 /\ At(in, w) \in {NL, EOIChar}
        THEN Ok(e, <<Node("thematic_break", p, e, <<>>)>>)
        ELSE Fail

blank_line(in, p) ==
    IF At(in, p) = NL THEN Ok(p + 1, <<Node("blank_line", p, p + 1, <<>>)>>) ELSE Fail

Fence == <<BT, BT, BT>>

\* code_fence = { fence ~ language_spec? ~ NEWLINE ~ code_body ~ NEWLINE ~ fence ~ NEWLINE? }
code_fence(in, p) ==
    LET l == p + 3
        n == LineEnd(in, l)
        b == n + 1
        c == Min({i \in b..(Len(in) + 1) :
                     i = Len(in) + 1 \/ (in[i] = NL /\ StartsWith(in, i + 1, Fence))})
        e == OptNewline(in, c + 4)
        lang == IF n > l THEN <<Node("language_spec", l, n, <<>>)>> ELSE <<>>
    IN  IF StartsWith(in, p, Fence) /\ At(in, n) = NL /\ c <= Len(in)
        THEN Ok(e, <<Node("code_fence", p, e,
                          lang \o <<Node("code_body", b, c, <<>>)>>)>>)
        ELSE Fail

\* quote_line = { ">" ~ paragraph_text? ~ NEWLINE? }
quote_line(in, p) ==
    LET t == Match("paragraph_text", in, p + 1)
        q == IF t.ok THEN t.p ELSE p + 1
    IN  IF At(in, p) = ">"
        THEN Ok(OptNewline(in, q), <<Node("quote_line", p, OptNewline(in, q), t.ns)>>)
        ELSE Fail

\* marker ~ whitespace+ ~ (!NEWLINE ~ ANY)* ~ NEWLINE?, the marker ending at m
list_item(in, p, m, rule) ==
    LET w == SkipHSpace(in, m)
        e == OptNewline(in, LineEnd(in, w))
    IN  IF m > p /\ w > m THEN Ok(e, <<Node(rule, p, e, <<>>)>>) ELSE Fail

\* unordered_list_item with '-' as its only marker
unordered_list_item_dash_only(in, p) ==
    list_item(in, p, IF At(in, p) = "-" THEN p + 1 ELSE p, "unordered_list_item")

unordered_list_item(in, p) ==
    list_item(in, p, IF At(in, p) \in {"-", "*"} THEN p + 1 ELSE p,
              "unordered_list_item")

ordered_list_item(in, p) ==
    LET d == ScanWhile(in, p, Digits)
    IN  list_item(in, p, IF d > p /\ At(in, d) = "." THEN d + 1 ELSE p,
                  "ordered_list_item")

\* rule+ for the line rules quote_line, unordered_list_item, ordered_list_item
RECURSIVE Lines(_, _, _)
Lines(in, p, rule) ==
    LET r == Match(rule, in, p)
    IN  IF r.ok THEN r.ns \o Lines(in, r.p, rule) ELSE <<>>

Container(in, p, rule, line) ==
    LET ks == Lines(in, p, line)
    IN  IF ks = <<>> THEN Fail
        ELSE Ok(ks[Len(ks)].e, <<Node(rule, p, ks[Len(ks)].e, ks)>>)

document_quote(in, p) == Container(in, p, "document_quote", "quote_line")
document_unordered_list(in, p) ==
    Container(in, p, "document_unordered_list", "unordered_list_item")
document_ordered_list(in, p) ==
    Container(in, p, "document_ordered_list", "ordered_list_item")

\* a block rule more specific than the paragraph matches at p
specific_block(in, p) ==
    LET f == Match("code_fence", in, p)
        h == Match("document_heading", in, p)
        t == Match("thematic_break", in, p)
        q == Match("document_quote", in, p)
        u == Match("document_unordered_list", in, p)
    IN  IF f.ok THEN f
        ELSE IF h.ok THEN h
        ELSE IF t.ok THEN t
        ELSE IF q.ok THEN q
        ELSE IF u.ok THEN u
        ELSE Match("document_ordered_list", in, p)

\* (NEWLINE ~ !specific_block ~ !NEWLINE ~ paragraph_text)*
RECURSIVE MoreLines(_, _)
MoreLines(in, p) ==
    LET t == Match("paragraph_text", in, p + 1)
    IN  IF At(in, p) = NL /\ ~Match("specific_block", in, p + 1).ok /\ t.ok
        THEN t.ns \o MoreLines(in, t.p)
        ELSE <<>>

\* document_paragraph = { paragraph_text ~ (NEWLINE ~ paragraph_text)* ~ NEWLINE? }
document_paragraph(in, p) ==
    LET t  == Match("paragraph_text", in, p)
        ks == t.ns \o MoreLines(in, t.p)
        e  == OptNewline(in, ks[Len(ks)].e)
    IN  IF t.ok THEN Ok(e, <<Node("document_paragraph", p, e, ks)>>) ELSE Fail

document_block(in, p) ==
    LET s == Match("specific_block", in, p)
        b == Match("blank_line", in, p)
        r == IF s.ok THEN s ELSE IF b.ok THEN b ELSE Match("document_paragraph", in, p)
    IN  IF r.ok THEN Ok(r.p, <<Node("document_block", p, r.p, r.ns)>>) ELSE Fail

\* document_block*: the block r matched at p, then the blocks after it
RECURSIVE Blocks(_, _)
BlocksFrom(in, p, r) ==
    IF p <= Len(in) /\ r.ok THEN r.ns \o Blocks(in, r.p) ELSE <<>>

Blocks(in, p) == BlocksFrom(in, p, Match("document_block", in, p))

\* the generated parser: one function per rule of the grammar
Match(r, in, p) ==
    CASE r = "escape_sequence" -> escape_sequence(in, p)
      [] r = "bold_formatting" -> bold_formatting(in, p)
      [] r = "underline_formatting" -> underline_formatting(in, p)
      [] r = "strikethrough_formatting" -> strikethrough_formatting(in, p)
      [] r = "italic_formatting" -> italic_formatting(in, p)
      [] r = "text_formatting" -> text_formatting(in, p)
      [] r = "inline_code" -> inline_code(in, p)
      [] r = "link" -> link(in, p)
      [] r = "image" -> image(in, p)
      [] r = "inline_construct" -> inline_construct(in, p)
      [] r = "plain_text" -> plain_text(in, p)
      [] r = "inline" -> inline(in, p)
      [] r = "paragraph_text" -> paragraph_text(in, p)
      [] r = "h1_heading" -> h1_heading(in, p)
      [] r = "h2_heading" -> h2_heading(in, p)
      [] r = "h3_heading" -> h3_heading(in, p)
      [] r = "document_heading" -> document_heading(in, p)
      [] r = "thematic_break" -> thematic_break(in, p)
      [] r = "blank_line" -> blank_line(in, p)
      [] r = "code_fence" -> code_fence(in, p)
      [] r = "quote_line" -> quote_line(in, p)
      [] r = "unordered_list_item" -> unordered_list_item(in, p)
      [] r = "ordered_list_item" -> ordered_list_item(in, p)
      [] r = "document_quote" -> document_quote(in, p)
      [] r = "document_unordered_list" -> document_unordered_list(in, p)
      [] r = "document_ordered_list" -> document_ordered_list(in, p)
      [] r = "specific_block" -> specific_block(in, p)
      [] r = "document_paragraph" -> document_paragraph(in, p)
      [] r = "document_block" -> document_block(in, p)
      [] OTHER -> Fail

\* document_structure = { SOI ~ document_block* ~ EOI }
DocumentOf(in, ks) ==
    LET e == IF ks = <<>> THEN 1 ELSE ks[Len(ks)].e
    IN  IF e = Len(in) + 1
        THEN Ok(e, <<Node("document_structure", 1, e,
                          ks \o <<Node("EOI", e, e, <<>>)>>)>>)
        ELSE Fail

document_structure(in) == DocumentOf(in, Blocks(in, 1))

\* ------------------------------------------------------------ strings of lib.rs
\* str::trim_start_matches, str::trim_end_matches, str::trim
TrimStartMatches(s, S) == SubSeq(s, ScanWhile(s, 1, S), Len(s))

TrimEndMatches(s, S) ==
    LET keep == {i \in 1..Len(s) : s[i] \notin S}
    IN  IF keep = {} THEN <<>>
        ELSE SubSeq(s, 1, CHOOSE i \in keep : \A j \in keep : j <= i)

Trim(s) == TrimEndMatches(TrimStartMatches(s, Whitespace), Whitespace)

\* str::strip_prefix / strip_suffix of one character: [some, v]
StripPrefix(s, c) ==
    IF Len(s) >= 1 /\ s[1] = c THEN [some |-> TRUE, v |-> Tail(s)]
    ELSE [some |-> FALSE, v |-> <<>>]

StripSuffix(s, c) ==
    IF Len(s) >= 1 /\ s[Len(s)] = c THEN [some |-> TRUE, v |-> SubSeq(s, 1, Len(s) - 1)]
    ELSE [some |-> FALSE, v |-> <<>>]

\* ------------------------------------------------------------ HTML pieces
Tpl(s) == <<[k |-> "tpl", s |-> s]>>
Usr(chars) == [i \in DOMAIN chars |-> [k |-> "usr", s |-> chars[i]]]
Url(chars) == [i \in DOMAIN chars |-> [k |-> "url", s |-> chars[i]]]

\* html_escape::encode_text: & < > become entities, every other character
\* (the quotes included) is copied.
EncodeChar(c) ==
    CASE c = "&" -> [k |-> "ent", s |-> "&amp;"]
      [] c = "<" -> [k |-> "ent", s |-> "&lt;"]
      [] c = ">" -> [k |-> "ent", s |-> "&gt;"]
      [] OTHER   -> [k |-> "usr", s |-> c]

encode_text(chars) == [i \in DOMAIN chars |-> EncodeChar(chars[i])]

RECURSIVE Flatten(_)
Flatten(ss) == IF ss = <<>> THEN <<>> ELSE Head(ss) \o Flatten(Tail(ss))

\* [String]::join
RECURSIVE Join(_, _)
Join(ss, sep) ==
    IF ss = <<>> THEN <<>>
    ELSE IF Len(ss) = 1 THEN ss[1]
    ELSE ss[1] \o sep \o Join(Tail(ss), sep)

\* Result<String, MarkdownError>
\* MarkdownError::ParseError(String), the message in parts
ParseError(parts) == <<"ParseError">> \o parts

Good(html) == [ok |-> TRUE, html |-> html, err |-> <<>>]
Bad(msg) == [ok |-> FALSE, html |-> <<>>, err |-> ParseError(<<msg>>)]
BadRule(msg, rule) == [ok |-> FALSE, html |-> <<>>, err |-> ParseError(<<msg, rule>>)]

FirstBad(rs) == rs[Min({i \in DOMAIN rs : ~rs[i].ok})]
AllGood(rs) == \A i \in DOMAIN rs : rs[i].ok
Htmls(rs) == [i \in DOMAIN rs |-> rs[i].html]

\* Iterator<Result<String, E>>::collect::<Result<String, E>>()
CollectString(rs) == IF AllGood(rs) THEN Good(Flatten(Htmls(rs))) ELSE FirstBad(rs)

\* ------------------------------------------------------------ renderer (lib.rs)
\* process_heading without trim_start_matches('#')
process_heading_keeps_markers(in, pair) ==
    LET level == CASE pair.rule = "h1_heading" -> 1
                   [] pair.rule = "h2_heading" -> 2
                   [] pair.rule = "h3_heading" -> 3
                   [] OTHER -> 0
        text == Trim(TrimEndMatches(TrimStartMatches(as_str(in, pair), Whitespace), {NL}))
    IN  IF level = 0 THEN Bad("Invalid heading")
        ELSE Good(Tpl(<<"<h1>", "<h2>", "<h3>">>[level]) \o encode_text(text)
                  \o Tpl(<<"</h1>", "</h2>", "</h3>">>[level]))

process_heading(in, pair) ==
    LET level == CASE pair.rule = "h1_heading" -> 1
                   [] pair.rule = "h2_heading" -> 2
                   [] pair.rule = "h3_heading" -> 3
                   [] OTHER -> 0
        content == as_str(in, pair)
        text == Trim(TrimEndMatches(
                    TrimStartMatches(TrimStartMatches(content, {"#"}), Whitespace),
                    {NL}))
    IN  IF level = 0 THEN Bad("Invalid heading")
        ELSE Good(Tpl(<<"<h1>", "<h2>", "<h3>">>[level]) \o encode_text(text)
                  \o Tpl(<<"</h1>", "</h2>", "</h3>">>[level]))

\* Option::unwrap() on None: the thread panics, nothing is returned
Panic == [ok |-> FALSE, html |-> <<>>, err |-> <<"panic">>]

\* the second inner pair asked for instead of the first
HasSecondInner(pair) == Len(pair.kids) >= 2

\* pair.into_inner().next() is Some
HasInner(pair) == pair.kids # <<>>

process_document_heading(in, pair) ==
    IF HasInner(pair) THEN process_heading(in, pair.kids[1]) ELSE Panic

\* the content of a formatting pair: its first inner pair, escaped
FormatContent(in, pair, msg) ==
    IF pair.kids = <<>> THEN Bad(msg)
    ELSE Good(encode_text(as_str(in, pair.kids[1])))

\* the text of the bold pair itself instead of its first inner pair
process_bold_content_of_pair(in, pair) == Good(encode_text(as_str(in, pair)))

process_bold_content(in, pair) == FormatContent(in, pair, "Empty bold content")
process_italic_content(in, pair) == FormatContent(in, pair, "Empty italic content")
process_strikethrough_content(in, pair) ==
    FormatContent(in, pair, "Empty strikethrough content")
process_underline_content(in, pair) ==
    FormatContent(in, pair, "Empty underline content")

\* content? ; Ok(format!("<tag>{content}</tag>"))
Wrap(open, r, close) ==
    IF r.ok THEN Good(Tpl(open) \o r.html \o Tpl(close)) ELSE r

process_text_formatting(in, pair) ==
    CASE pair.rule = "bold_formatting" ->
            Wrap("<strong>", process_bold_content(in, pair), "</strong>")
      [] pair.rule = "italic_formatting" ->
            Wrap("<em>", process_italic_content(in, pair), "</em>")
      [] pair.rule = "strikethrough_formatting" ->
            Wrap("<del>", process_strikethrough_content(in, pair), "</del>")
      [] pair.rule = "underline_formatting" ->
            Wrap("<u>", process_underline_content(in, pair), "</u>")
      [] OTHER -> Good(encode_text(as_str(in, pair)))

\* process_link with the URL escaped like the text
process_link_escapes_url(in, pair) ==
    IF Len(pair.kids) < 1 THEN Bad("Missing link text")
    ELSE IF Len(pair.kids) < 2 THEN Bad("Missing link URL")
    ELSE LET text == pairs_as_str(in, pair.kids[1].kids)
             url  == as_str(in, pair.kids[2])
         IN  Good(Tpl("<a href=\"") \o encode_text(url) \o Tpl("\">")
                  \o encode_text(text) \o Tpl("</a>"))

process_link(in, pair) ==
    IF Len(pair.kids) < 1 THEN Bad("Missing link text")
    ELSE IF Len(pair.kids) < 2 THEN Bad("Missing link URL")
    ELSE LET text == pairs_as_str(in, pair.kids[1].kids)
             url  == as_str(in, pair.kids[2])
         IN  Good(Tpl("<a href=\"") \o Url(url) \o Tpl("\">")
                  \o encode_text(text) \o Tpl("</a>"))

process_image(in, pair) ==
    IF Len(pair.kids) < 1 THEN Bad("Missing image alt text")
    ELSE IF Len(pair.kids) < 2 THEN Bad("Missing image URL")
    ELSE LET alt == pairs_as_str(in, pair.kids[1].kids)
             url == as_str(in, pair.kids[2])
         IN  Good(Tpl("<img src=\"") \o Url(url) \o Tpl("\" alt=\"")
                  \o encode_text(alt) \o Tpl("\">"))

\* the text of the escape pair itself, backslash included
process_escape_sequence_of_pair(in, pair) == Good(encode_text(as_str(in, pair)))

process_escape_sequence(in, pair) ==
    LET escaped == IF pair.kids = <<>> THEN <<>> ELSE as_str(in, pair.kids[1])
    IN  Good(encode_text(escaped))

process_inline_code(in, pair) ==
    LET full == as_str(in, pair)
        a    == StripPrefix(full, BT)
        b    == IF a.some THEN StripSuffix(a.v, BT) ELSE a
        code == IF b.some THEN b.v ELSE <<>>
    IN  Good(Tpl("<code>") \o encode_text(code) \o Tpl("</code>"))

process_inline_element(in, pair) ==
    CASE pair.rule = "plain_text" -> Good(encode_text(as_str(in, pair)))
      [] pair.rule = "inline_code" -> process_inline_code(in, pair)
      [] pair.rule = "link" -> process_link(in, pair)
      [] pair.rule = "image" -> process_image(in, pair)
      [] pair.rule = "bold_formatting" ->
            Wrap("<strong>", process_bold_content(in, pair), "</strong>")
      [] pair.rule = "italic_formatting" ->
            Wrap("<em>", process_italic_content(in, pair), "</em>")
      [] pair.rule = "strikethrough_formatting" ->
            Wrap("<del>", process_strikethrough_content(in, pair), "</del>")
      [] pair.rule = "underline_formatting" ->
            Wrap("<u>", process_underline_content(in, pair), "</u>")
      [] pair.rule = "text_formatting" -> process_text_formatting(in, pair)
      [] pair.rule = "escape_sequence" -> process_escape_sequence(in, pair)
      [] OTHER -> Good(encode_text(as_str(in, pair)))

process_paragraph_line(in, pair) ==
    CollectString([i \in DOMAIN pair.kids |-> process_inline_element(in, pair.kids[i])])

\* rendered HTML put through the escaping once more: the '&' of every entity
\* becomes an entity itself
EscapedAgain(r) ==
    IF r.ok
    THEN Good([i \in DOMAIN r.html |->
                 CASE r.html[i].s = "&amp;" -> [k |-> "ent", s |-> "&amp;amp;"]
                   [] r.html[i].s = "&lt;" -> [k |-> "ent", s |-> "&amp;lt;"]
                   [] r.html[i].s = "&gt;" -> [k |-> "ent", s |-> "&amp;gt;"]
                   [] OTHER -> r.html[i]])
    ELSE r

\* process_paragraph_text with its result escaped again
process_paragraph_text_escaped_again(in, pair) ==
    EscapedAgain(CollectString([i \in DOMAIN pair.kids |->
                                   process_inline_element(in, pair.kids[i])]))

process_paragraph_text(in, pair) ==
    CollectString([i \in DOMAIN pair.kids |-> process_inline_element(in, pair.kids[i])])

\* process_paragraph with a line end kept between two lines
process_paragraph_joins_lines(in, pair) ==
    LET rs == [i \in DOMAIN pair.kids |-> process_paragraph_line(in, pair.kids[i])]
    IN  IF AllGood(rs)
        THEN Good(Tpl("<p>") \o Join(Htmls(rs), Tpl("\n")) \o Tpl("</p>"))
        ELSE FirstBad(rs)

process_paragraph(in, pair) ==
    Wrap("<p>",
         CollectString([i \in DOMAIN pair.kids |-> process_paragraph_line(in, pair.kids[i])]),
         "</p>")

process_document_paragraph(in, pair) == process_paragraph(in, pair)

\* process_list_item without the final trim()
process_list_item_untrimmed(in, pair) ==
    LET content == as_str(in, pair)
        ws   == {i \in 1..Len(content) : content[i] \in Whitespace}
        rest == IF ws = {} THEN <<>> ELSE SubSeq(content, Min(ws) + 1, Len(content))
        text == TrimEndMatches(rest, {NL})
    IN  Good(Tpl("<li>") \o encode_text(text) \o Tpl("</li>"))

process_list_item(in, pair) ==
    LET content == as_str(in, pair)
        ws   == {i \in 1..Len(content) : content[i] \in Whitespace}
        rest == IF ws = {} THEN <<>> ELSE SubSeq(content, Min(ws) + 1, Len(content))
        text == Trim(TrimEndMatches(rest, {NL}))
    IN  Good(Tpl("<li>") \o encode_text(text) \o Tpl("</li>"))

\* items?.join("\n") between the list tags
ListOf(in, pair, open, close) ==
    LET items == [i \in DOMAIN pair.kids |-> process_list_item(in, pair.kids[i])]
    IN  IF AllGood(items)
        THEN Good(Tpl(open) \o Join(Htmls(items), Tpl("\n")) \o Tpl(close))
        ELSE FirstBad(items)

process_unordered_list(in, pair) == ListOf(in, pair, "<ul>\n", "\n</ul>")
process_ordered_list(in, pair) == ListOf(in, pair, "<ol>\n", "\n</ol>")

process_code_block(in, pair) ==
    LET language == IF Len(pair.kids) >= 1 THEN Trim(as_str(in, pair.kids[1])) ELSE <<>>
        code == IF Len(pair.kids) >= 2 THEN encode_text(as_str(in, pair.kids[2])) ELSE <<>>
        lang_attr == IF language = <<>> THEN <<>>
                     ELSE Tpl(" class=\"language-") \o Usr(language) \o Tpl("\"")
    IN  Good(Tpl("<pre><code") \o lang_attr \o Tpl(">") \o code \o Tpl("</code></pre>"))

process_code_fence(in, pair) == process_code_block(in, pair)

\* the thematic_break arm with the string of the blank_line arm
thematic_break_as_blank_line == Tpl("<br>")

\* the fixed strings of the thematic_break and blank_line arms
thematic_break_html == Tpl("<hr>")
blank_line_html == Tpl("<br>")

RECURSIVE convert_to_html(_, _)

\* process_quote_line with the empty string for a line without content
process_quote_line_empty(in, pair) ==
    IF pair.kids = <<>> THEN Good(<<>>)
    ELSE Wrap("<p>", convert_to_html(in, pair.kids[1]), "</p>")

process_quote_line(in, pair) ==
    IF pair.kids = <<>> THEN Good(Tpl("<p></p>"))
    ELSE Wrap("<p>", convert_to_html(in, pair.kids[1]), "</p>")

process_quote(in, pair) ==
    LET rs    == [i \in DOMAIN pair.kids |-> process_quote_line(in, pair.kids[i])]
        lines == SelectSeq(Htmls(rs), LAMBDA h : h # <<>>)
    IN  IF AllGood(rs)
        THEN Good(Tpl("<blockquote>\n") \o Join(lines, Tpl("\n")) \o Tpl("\n</blockquote>"))
        ELSE FirstBad(rs)

process_document_quote(in, pair) == process_quote(in, pair)

convert_to_html(in, pair) ==
    CASE pair.rule = "document_block" ->
            IF HasInner(pair) THEN convert_to_html(in, pair.kids[1]) ELSE Panic
      [] pair.rule = "document_heading" -> process_document_heading(in, pair)
      [] pair.rule \in {"h1_heading", "h2_heading", "h3_heading"} ->
            process_heading(in, pair)
      [] pair.rule = "document_paragraph" -> process_document_paragraph(in, pair)
      [] pair.rule = "document_quote" -> process_document_quote(in, pair)
      [] pair.rule = "quote_line" -> process_quote_line(in, pair)
      [] pair.rule = "paragraph_text" -> process_paragraph_text(in, pair)
      [] pair.rule = "document_unordered_list" -> process_unordered_list(in, pair)
      [] pair.rule = "document_ordered_list" -> process_ordered_list(in, pair)
      [] pair.rule = "unordered_list_item" -> process_list_item(in, pair)
      [] pair.rule = "ordered_list_item" -> process_list_item(in, pair)
      [] pair.rule = "code_fence" -> process_code_fence(in, pair)
      [] pair.rule = "thematic_break" -> Good(thematic_break_html)
      [] pair.rule = "blank_line" -> Good(blank_line_html)
      [] pair.rule = "EOI" -> Good(<<>>)
      [] OTHER -> BadRule("Unknown rule: ", pair.rule)

\* ------------------------------------------------------------ inputs
MaxText == 2
MaxLines == 2

TextChars == {"a", SP, "<", "&", DQ, "#"}
Texts == UNION {[1..n -> TextChars] : n \in 1..MaxText}

Spaces(k) == [i \in 1..k |-> SP]
Run(c, n) == [i \in 1..n |-> c]

\* the end-to-end document of the specification (section 8)
EndToEnd ==
    <<"#", SP, "H", "e", "l", "l", "o", NL, "_", "_", "_", NL, NL,
      "T", "h", "i", "s", SP, "i", "s", SP, "*", "*", "b", "o", "l", "d", "*", "*",
      SP, "t", "e", "x", "t", ".">>

HeadingInputs ==
    {Hashes(n) \o Spaces(k) \o t \o tl :
        n \in 1..4, k \in 0..2, t \in Texts, tl \in {<<>>, <<SP>>, <<NL>>}}
    \cup {Hashes(n) \o tl : n \in 1..4, tl \in {<<>>, <<SP>>}}

Delims == {<<"*", "*">>, <<"*">>, <<"_">>, <<"_", "_">>, <<"~", "~">>}

FormatInputs ==
    {d \o t \o e : d \in Delims, t \in Texts, e \in Delims \cup {<<>>}}

EscapeInputs ==
    {pre \o <<BS, c>> \o post :
        c \in Punct \cup {SP, "a"},
        pre \in {<<>>, <<"a">>},
        post \in {<<>>, <<"a">>, <<"a", "*">>}}

Urls == {<<"u">>, <<"u", "&", "v">>, <<"u", DQ, "<">>}

LinkInputs ==
    {open \o t \o <<"]", "(">> \o u \o <<")">> :
        open \in {<<"[">>, <<"!", "[">>}, t \in Texts \cup {<<"a", BS, "]">>}, u \in Urls}

BreakInputs ==
    {Run(c, n) \o tl :
        c \in {"-", "*", "_"}, n \in 1..4,
        tl \in {<<>>, <<SP>>, <<NL>>, <<SP, SP, NL>>, <<"a">>, <<NL, "a">>}}
    \cup {<<a, b, c>> : a \in {"-", "*", "_"}, b \in {"-", "*", "_"}, c \in {"-", "*", "_"}}

Langs == {<<>>, <<"p", "y">>, <<"<">>}
Bodies == Texts \cup {<<"*", "*", "a", "*", "*">>, <<"a", NL, "b">>, <<"#", SP, "a">>}

FenceInputs ==
    {Fence \o l \o <<NL>> \o b \o <<NL>> \o Fence \o tl :
        l \in Langs, b \in Bodies, tl \in {<<>>, <<NL>>}}

QuoteContents == {<<>>, <<"a">>, <<"*", "*", "a", "*", "*">>, <<"a", "<">>, <<"&">>}
LineSet == {<<"#", SP, "a">>, <<"a">>, <<>>, <<"-", "-", "-">>, <<"-", SP, "a">>,
            <<"1", ".", SP, "a">>, <<">", "a">>, <<"*", "a", "*", "<">>}

\* one to n lines of S, each followed by a line end except the last
LinesOf(S, n) ==
    UNION {{Join(ls, <<NL>>) : ls \in [1..k -> S]} : k \in 1..n}

QuoteInputs ==
    {d \o tl : d \in LinesOf({<<">">> \o c : c \in QuoteContents}, MaxLines + 1),
               tl \in {<<>>, <<NL>>}}

DocInputs == LinesOf(LineSet, MaxLines + 1)

ParaLines == {<<"a">>, <<"a", SP>>, <<"b", "<">>, <<"*", "*", "a", "*", "*">>, <<>>,
              <<"-", "-", "-">>, <<"#", SP, "a">>, <<"-", SP, "a">>}
ParaInputs == LinesOf(ParaLines, MaxLines + 1)

\* texts that look like entities, and the places a leaf text can stand in:
\* what precedes and follows it in the source and in the HTML
EntityTexts == {<<"&", "a", "m", "p", ";">>, <<"&", "l", "t", ";", "<">>, <<"a", ">", "&">>}

Place(pre, post, open, close) == [pre |-> pre, post |-> post, open |-> open, close |-> close]

Places ==
    {Place(<<>>, <<>>, <<"<p>">>, <<"</p>">>),
     Place(<<">">>, <<>>, <<"<blockquote>\n", "<p>">>, <<"</p>", "\n</blockquote>">>),
     Place(<<">", "*", "*">>, <<"*", "*">>,
           <<"<blockquote>\n", "<p>", "<strong>">>, <<"</strong>", "</p>", "\n</blockquote>">>),
     Place(<<"*", "*">>, <<"*", "*">>, <<"<p>", "<strong>">>, <<"</strong>", "</p>">>),
     Place(<<"_">>, <<"_">>, <<"<p>", "<em>">>, <<"</em>", "</p>">>),
     Place(<<"#", SP>>, <<>>, <<"<h1>">>, <<"</h1>">>),
     Place(<<"-", SP>>, <<>>, <<"<ul>\n", "<li>">>, <<"</li>", "\n</ul>">>),
     Place(<<"[">>, <<"]", "(", "u", ")">>,
           <<"<p>", "<a href=\"", "u", "\">">>, <<"</a>", "</p>">>),
     Place(Fence \o <<"p", "y", NL>>, <<NL>> \o Fence,
           <<"<pre><code", " class=\"language-", "p", "y", "\"", ">">>, <<"</code></pre>">>)}

EntityInputs == {pl.pre \o t \o pl.post : pl \in Places, t \in EntityTexts}

ItemLines == {<<"-", SP, "a">>, <<"*", SP, "a", "<">>, <<"-", SP, SP, "a", SP>>,
              <<"-", SP, "a", SP, "b">>, <<"1", ".", SP, "a">>,
              <<"1", "2", ".", SP, SP, "&">>}

ListInputs ==
    {d \o tl : d \in LinesOf(ItemLines, MaxLines + 1), tl \in {<<>>, <<NL>>}}

Inputs ==
    {EndToEnd} \cup HeadingInputs \cup FormatInputs \cup EscapeInputs \cup LinkInputs
    \cup BreakInputs \cup FenceInputs \cup QuoteInputs \cup DocInputs
    \cup ListInputs \cup ParaInputs \cup EntityInputs

\* ------------------------------------------------------------ str_to_html
VARIABLES
    input,      \* the markdown text given to str_to_html
    pc,         \* "start", "render" (inside the iterator chain), "done", "panicked"
    document,   \* the document_structure pair, once parsed
    idx,        \* the next inner pair of the document the iterator yields
    results,    \* the HTML strings collected so far
    passed,     \* the rules of the pairs handed to convert_to_html, in order
    outcome,    \* the value str_to_html returned
    returned,   \* the input and the value of every earlier call, in order
    fs,         \* the files: for each path, whether it exists and what it holds
    fpc,        \* the position of convert_file_to_html
    outPath,    \* the output path given to convert_file_to_html
    rpos,       \* where the reader of the input file stands
    content,    \* the String the lines of the input file are pushed to
    widx,       \* the next HTML string to write to the output file
    ret         \* the value convert_file_to_html returned

vars == <<input, pc, document, idx, results, passed, outcome, returned,
          fs, fpc, outPath, rpos, content, widx, ret>>

\* the variables of convert_file_to_html
fvars == <<fs, fpc, outPath, rpos, content, widx, ret>>

Paths == {"in", "out"}
InPath == "in"
NoFile == [exists |-> FALSE, data |-> <<>>]
FileOf(data) == [exists |-> TRUE, data |-> data]

\* convert_file_to_html is not running
FileIdle ==
    /\ fs = [p \in Paths |-> NoFile]
    /\ fpc = "idle"
    /\ outPath = "out"
    /\ rpos = 1
    /\ content = <<>>
    /\ widx = 1
    /\ ret = [ok |-> FALSE, err |-> <<"pending">>]

NoPair == Node("none", 0, 0, <<>>)
Pending == [ok |-> FALSE, value |-> <<>>, err |-> <<"pending">>]

Init ==
    /\ input \in Inputs
    /\ pc = "start"
    /\ document = NoPair
    /\ idx = 1
    /\ results = <<>>
    /\ passed = <<>>
    /\ outcome = Pending
    /\ returned = <<>>
    /\ FileIdle

\* MarkdownParser::parse(Rule::document_structure, input), ParseError otherwise
ParseResult(r) ==
    IF r.ok THEN [ok |-> TRUE, pairs |-> r.ns, err |-> <<>>]
    ELSE [ok |-> FALSE, pairs |-> <<>>, err |-> ParseError(<<"pest error">>)]

parse_markdown(in) == ParseResult(document_structure(in))

\* let mut parsed = parse_markdown(input)?; let document = parsed.next().ok_or(..)?
FirstPair(parsed) ==
    IF ~parsed.ok
    THEN /\ outcome' = [ok |-> FALSE, value |-> <<>>, err |-> parsed.err]
         /\ pc' = "done"
         /\ UNCHANGED document
    ELSE IF parsed.pairs = <<>>
    THEN /\ outcome' = [ok |-> FALSE, value |-> <<>>, err |-> ParseError(<<"Empty document">>)]
         /\ pc' = "done"
         /\ UNCHANGED document
    ELSE /\ document' = parsed.pairs[1]
         /\ pc' = "render"
         /\ UNCHANGED outcome

ParseMarkdown ==
    /\ pc = "start"
    /\ FirstPair(parse_markdown(input))
    /\ UNCHANGED <<input, idx, results, passed, returned>>
    /\ UNCHANGED fvars

\* the filter left out: every inner pair is kept
KeepAll(pair) == TRUE

\* the filter of str_to_html: the end-of-input pair is dropped
Keep(pair) == pair.rule # "EOI"

\* the collection goes on after a pair that failed to convert
Push_skips_failed(pair, r) ==
    IF ~Keep(pair)
    THEN UNCHANGED <<results, passed, outcome, pc>>
    ELSE /\ passed' = Append(passed, pair.rule)
         /\ IF r.ok
            THEN /\ results' = Append(results, r.html)
                 /\ UNCHANGED <<outcome, pc>>
            ELSE IF r = Panic
            THEN /\ pc' = "panicked"
                 /\ UNCHANGED <<outcome, results>>
            ELSE UNCHANGED <<results, outcome, pc>>

\* one step of document.into_inner().filter(..).map(convert_to_html).collect():
\* the next inner pair is dropped by the filter, or converted; the first
\* error ends the collection, and a panic ends the call without a value.
Push(pair, r) ==
    IF ~Keep(pair)
    THEN UNCHANGED <<results, passed, outcome, pc>>
    ELSE /\ passed' = Append(passed, pair.rule)
         /\ IF r.ok
            THEN /\ results' = Append(results, r.html)
                 /\ UNCHANGED <<outcome, pc>>
            ELSE IF r = Panic
            THEN /\ pc' = "panicked"
                 /\ UNCHANGED <<outcome, results>>
            ELSE /\ outcome' = [ok |-> FALSE, value |-> <<>>, err |-> r.err]
                 /\ pc' = "done"
                 /\ UNCHANGED results

NextPair ==
    /\ pc = "render"
    /\ idx <= Len(document.kids)
    /\ Push(document.kids[idx], convert_to_html(input, document.kids[idx]))
    /\ idx' = idx + 1
    /\ UNCHANGED <<input, document, returned>>
    /\ UNCHANGED fvars

\* the iterator is exhausted: collect() returns the vector
Collect ==
    /\ pc = "render"
    /\ idx > Len(document.kids)
    /\ outcome' = [ok |-> TRUE, value |-> results, err |-> <<>>]
    /\ pc' = "done"
    /\ UNCHANGED <<input, document, idx, results, passed, returned>>
    /\ UNCHANGED fvars

Next == ParseMarkdown \/ NextPair \/ Collect

Spec == Init /\ [][Next]_vars

\* ------------------------------------------------------------ any parser
\* grammar.pest decides which pairs the generated parser returns; the renderer
\* is defined on every pair of the Rule type. Here the parser returns an error
\* or any document out of a bounded set of pairs, among them pairs without the
\* inner pairs or of kinds the renderer has no arm for.
MaxBlocks == 2

PairText == <<"a", "<">>
Leaf(rule) == Node(rule, 1, 3, <<>>)
With(rule, kid) == Node(rule, 1, 3, <<kid>>)

FormatRules ==
    {"bold_formatting", "italic_formatting", "strikethrough_formatting",
     "underline_formatting"}

InlinePairs ==
    {Leaf("plain_text"), Leaf("link_text"), Leaf("text_formatting"),
     Leaf("inline_code"), Leaf("escape_sequence"),
     Leaf("link"), With("link", Leaf("link_text")),
     Leaf("image"), With("image", Leaf("image_alt"))}
    \cup {Leaf(r) : r \in FormatRules}
    \cup {With(r, Leaf("plain_text")) : r \in FormatRules}
    \cup {With("text_formatting", Leaf("bold_formatting"))}

BlockPairs ==
    {With("document_paragraph", With("paragraph_text", k)) : k \in InlinePairs}
    \cup {Leaf("blank_line"), Leaf("thematic_break"), Leaf("plain_text"),
          Leaf("document_heading"), With("document_heading", Leaf("h1_heading")),
          With("document_heading", Leaf("plain_text")),
          With("document_quote", Leaf("quote_line")),
          With("document_quote", With("quote_line", Leaf("plain_text"))),
          With("document_quote", With("quote_line", With("paragraph_text", Leaf("plain_text"))))}

TopPairs ==
    {With("document_block", b) : b \in BlockPairs}
    \cup {Leaf("document_block"), Leaf("inline")}

\* the blocks before and after the block drawn from TopPairs
SideTops ==
    {With("document_block", Leaf("blank_line")),
     With("document_block", With("document_paragraph", With("paragraph_text", Leaf("plain_text")))),
     With("document_block", With("document_paragraph", With("paragraph_text", Leaf("bold_formatting")))),
     Leaf("inline"), Leaf("document_block")}
Sides == UNION {[1..n -> SideTops] : n \in 0..(MaxBlocks - 1)}

DocumentWith(ks) == Node("document_structure", 1, 3, ks \o <<Node("EOI", 3, 3, <<>>)>>)

\* no block, or up to MaxBlocks blocks: one of TopPairs, the others of SideTops
Documents ==
    {DocumentWith(<<>>)}
    \cup {DocumentWith(x[1] \o <<x[2]>> \o x[3]) :
            x \in {y \in Sides \X TopPairs \X Sides : Len(y[1]) + Len(y[3]) < MaxBlocks}}

ParseResults ==
    {ParseResult(Fail), [ok |-> TRUE, pairs |-> <<>>, err |-> <<>>]}
    \cup {ParseResult(Ok(3, <<d>>)) : d \in Documents}

InitAnyParser ==
    /\ input = PairText
    /\ pc = "start"
    /\ document = NoPair
    /\ idx = 1
    /\ results = <<>>
    /\ passed = <<>>
    /\ outcome = Pending
    /\ returned = <<>>
    /\ FileIdle

\* parse_markdown(input) returns an error, no pair, or one of the documents
ParseAny ==
    /\ pc = "start"
    /\ \E parsed \in ParseResults : FirstPair(parsed)
    /\ UNCHANGED <<input, idx, results, passed, returned>>
    /\ UNCHANGED fvars

NextAnyParser == ParseAny \/ NextPair \/ Collect

SpecAnyParser == InitAnyParser /\ [][NextAnyParser]_vars

\* ------------------------------------------------------------ repeated calls
MaxCalls == 3

CallInputs ==
    {<<"a">>, <<"#", SP, "a">>, <<"a", NL, NL, "b", "<">>, <<"-", SP, "a", NL, "1", ".", SP, "a">>,
     <<">", "a">>, <<"*", "*", "a", "*", "*", NL, "-", "-", "-">>}

InitCalls ==
    /\ input \in CallInputs
    /\ pc = "start"
    /\ document = NoPair
    /\ idx = 1
    /\ results = <<>>
    /\ passed = <<>>
    /\ outcome = Pending
    /\ returned = <<>>
    /\ FileIdle

\* a call whose vector of strings is the one the call before left behind
Call_keeps_results ==
    /\ pc = "done"
    /\ Len(returned) < MaxCalls - 1
    /\ returned' = Append(returned, [input |-> input, outcome |-> outcome])
    /\ input' \in CallInputs
    /\ pc' = "start"
    /\ document' = NoPair
    /\ idx' = 1
    /\ passed' = <<>>
    /\ outcome' = Pending
    /\ UNCHANGED results
    /\ UNCHANGED fvars

\* str_to_html is called again after it returned: every local of the call is
\* new, the function reads and writes nothing else
Call ==
    /\ pc = "done"
    /\ Len(returned) < MaxCalls - 1
    /\ returned' = Append(returned, [input |-> input, outcome |-> outcome])
    /\ input' \in CallInputs
    /\ pc' = "start"
    /\ document' = NoPair
    /\ idx' = 1
    /\ results' = <<>>
    /\ passed' = <<>>
    /\ outcome' = Pending
    /\ UNCHANGED fvars

NextCalls == ParseMarkdown \/ NextPair \/ Collect \/ Call

SpecCalls == InitCalls /\ [][NextCalls]_vars

\* ------------------------------------------------------------ convert_file_to_html
\* a byte sequence that is not valid UTF-8
BadByte == "<invalid utf-8>"
CR == "\r"

FileLines == {<<"a">>, <<"b", "<">>, <<"#", SP, "a">>, <<>>, <<"a", CR>>, <<BadByte>>}
FileTexts ==
    {<<>>} \cup {d \o tl : d \in LinesOf(FileLines, MaxLines), tl \in {<<>>, <<NL>>}}

OldOutput == <<"o", "l", "d", NL>>

\* the input file is absent or holds a text; the output path is a path of its
\* own, absent or holding an older output, or is the input path itself
FileSystems ==
    {[p \in Paths |-> IF p = InPath THEN f ELSE o] :
        f \in {NoFile} \cup {FileOf(t) : t \in FileTexts},
        o \in {NoFile, FileOf(OldOutput)}}

InitFile ==
    /\ input = <<>>
    /\ pc = "idle"
    /\ document = NoPair
    /\ idx = 1
    /\ results = <<>>
    /\ passed = <<>>
    /\ outcome = Pending
    /\ returned = <<>>
    /\ fs \in FileSystems
    /\ outPath \in Paths
    /\ outPath = InPath => ~fs["out"].exists
    /\ fpc = "open"
    /\ rpos = 1
    /\ content = <<>>
    /\ widx = 1
    /\ ret = [ok |-> FALSE, err |-> <<"pending">>]

\* MarkdownError::IoError(std::io::Error)
IoError(what) == [ok |-> FALSE, err |-> <<"IoError", what>>]

\* the variables of str_to_html
svars == <<input, pc, document, idx, results, passed, outcome, returned>>

\* File::open(input_path)? with the output file opened and truncated first
OpenInput_truncates_output ==
    /\ fpc = "open"
    /\ IF fs[InPath].exists
       THEN /\ fpc' = "read"
            /\ fs' = [fs EXCEPT ![outPath] = FileOf(<<>>)]
            /\ UNCHANGED ret
       ELSE /\ ret' = IoError("open input")
            /\ fpc' = "returned"
            /\ UNCHANGED fs
    /\ UNCHANGED <<outPath, rpos, content, widx>>
    /\ UNCHANGED svars

\* let file = File::open(input_path)?;
OpenInput ==
    /\ fpc = "open"
    /\ IF fs[InPath].exists
       THEN /\ fpc' = "read"
            /\ UNCHANGED ret
       ELSE /\ ret' = IoError("open input")
            /\ fpc' = "returned"
    /\ UNCHANGED <<fs, outPath, rpos, content, widx>>
    /\ UNCHANGED svars

\* BufRead::lines: the line without its line end, a carriage return before
\* the line end dropped with it
LineOf(raw, ended) ==
    IF ended /\ raw # <<>> /\ raw[Len(raw)] = CR THEN SubSeq(raw, 1, Len(raw) - 1) ELSE raw

\* one turn of the loop: the line read at rpos and ending at e is pushed to
\* content with a line end, or the read fails
PushLine(data, e) ==
    IF BadByte \in {data[i] : i \in rpos..(e - 1)}
    THEN /\ ret' = IoError("read input")
         /\ fpc' = "returned"
         /\ UNCHANGED <<rpos, content>>
    ELSE /\ content' = content \o LineOf(SubSeq(data, rpos, e - 1), e <= Len(data)) \o <<NL>>
         /\ rpos' = e + 1
         /\ UNCHANGED <<ret, fpc>>

\* for line in reader.lines() { content.push_str(&line?); content.push('\n'); }
ReadLine ==
    /\ fpc = "read"
    /\ rpos <= Len(fs[InPath].data)
    /\ PushLine(fs[InPath].data, LineEnd(fs[InPath].data, rpos))
    /\ UNCHANGED <<fs, outPath, widx>>
    /\ UNCHANGED svars

\* str_to_html(&content) is called once the reader is exhausted
CallStrToHtml ==
    /\ fpc = "read"
    /\ rpos > Len(fs[InPath].data)
    /\ fpc' = "convert"
    /\ input' = content
    /\ pc' = "start"
    /\ document' = NoPair
    /\ idx' = 1
    /\ results' = <<>>
    /\ passed' = <<>>
    /\ outcome' = Pending
    /\ UNCHANGED <<returned, fs, outPath, rpos, content, widx, ret>>

\* the generated parser rejects the text: whether it does is decided by
\* grammar.pest
ParseFails ==
    /\ pc = "start"
    /\ fpc = "convert"
    /\ FirstPair(ParseResult(Fail))
    /\ UNCHANGED <<input, idx, results, passed, returned>>
    /\ UNCHANGED fvars

\* let html_lines = str_to_html(&content)?; on an error
ConvertFailed ==
    /\ fpc = "convert"
    /\ pc = "done"
    /\ ~outcome.ok
    /\ ret' = [ok |-> FALSE, err |-> outcome.err]
    /\ fpc' = "returned"
    /\ UNCHANGED <<fs, outPath, rpos, content, widx>>
    /\ UNCHANGED svars

\* OpenOptions::new().create(true).write(true).truncate(true).open(output_path)?
OpenOutput ==
    /\ fpc = "convert"
    /\ pc = "done"
    /\ outcome.ok
    /\ \E opened \in BOOLEAN :
          IF opened
          THEN /\ fs' = [fs EXCEPT ![outPath] = FileOf(<<>>)]
               /\ fpc' = "write"
               /\ UNCHANGED ret
          ELSE /\ ret' = IoError("open output")
               /\ fpc' = "returned"
               /\ UNCHANGED fs
    /\ UNCHANGED <<outPath, rpos, content, widx>>
    /\ UNCHANGED svars

\* for line in html_lines { writeln!(output, "{}", line)?; }
WriteLine ==
    /\ fpc = "write"
    /\ widx <= Len(outcome.value)
    /\ \E written \in BOOLEAN :
          IF written
          THEN /\ fs' = [fs EXCEPT ![outPath] =
                           FileOf(@.data \o [i \in DOMAIN outcome.value[widx] |->
                                               outcome.value[widx][i].s] \o <<NL>>)]
               /\ widx' = widx + 1
               /\ UNCHANGED <<ret, fpc>>
          ELSE /\ ret' = IoError("write output")
               /\ fpc' = "returned"
               /\ UNCHANGED <<fs, widx>>
    /\ UNCHANGED <<outPath, rpos, content>>
    /\ UNCHANGED svars

\* Ok(())
Return ==
    /\ fpc = "write"
    /\ widx > Len(outcome.value)
    /\ ret' = [ok |-> TRUE, err |-> <<>>]
    /\ fpc' = "returned"
    /\ UNCHANGED <<fs, outPath, rpos, content, widx>>
    /\ UNCHANGED svars

NextFile ==
    \/ OpenInput \/ ReadLine \/ CallStrToHtml
    \/ ParseMarkdown \/ ParseFails \/ NextPair \/ Collect
    \/ ConvertFailed \/ OpenOutput \/ WriteLine \/ Return

SpecFile == InitFile /\ [][NextFile]_vars

\* ------------------------------------------------------------ properties
Done == pc = "done"

\* the text of rendered HTML, piece by piece
Text(h) == [i \in DOMAIN h |-> h[i].s]
Rendered == [i \in DOMAIN outcome.value |-> Text(outcome.value[i])]

\* the first line of a text, without its line end
FirstLine(in) == SubSeq(in, 1, LineEnd(in, 1) - 1)
\* the text holds one line: a line end only as the last character
OneLine(in) == \A i \in 1..(Len(in) - 1) : in[i] # NL
Chars(s) == {s[i] : i \in DOMAIN s}

\* the block a top-level pair wraps, and the template each block kind opens with
BlockRule(pair) == IF pair.kids = <<>> THEN "none" ELSE pair.kids[1].rule
Opens(rule) ==
    CASE rule = "h1_heading" -> "<h1>"
      [] rule = "h2_heading" -> "<h2>"
      [] rule = "h3_heading" -> "<h3>"
      [] rule = "document_paragraph" -> "<p>"
      [] rule = "document_quote" -> "<blockquote>\n"
      [] rule = "document_unordered_list" -> "<ul>\n"
      [] rule = "document_ordered_list" -> "<ol>\n"
      [] rule = "code_fence" -> "<pre><code"
      [] rule = "thematic_break" -> "<hr>"
      [] rule = "blank_line" -> "<br>"
      [] OTHER -> "none"

TopBlocks == SelectSeq(document.kids, LAMBDA n : n.rule = "document_block")

\* C1: when str_to_html succeeds, the returned vector holds one HTML string
\* per top-level block of the document, the i-th string being the rendering
\* of the i-th block, and the end-of-input pair is never handed to
\* convert_to_html nor contributes an element.
C1_OneStringPerBlock ==
    /\ \A i \in DOMAIN passed : passed[i] # "EOI"
    /\ (Done /\ outcome.ok) =>
          /\ Len(outcome.value) = Len(TopBlocks)
          /\ Len(passed) = Len(TopBlocks)
          /\ \A i \in DOMAIN outcome.value :
                /\ outcome.value[i] # <<>>
                /\ outcome.value[i][1] = [k |-> "tpl", s |-> Opens(BlockRule(TopBlocks[i]))]

\* C1 witness: a document of three blocks of different kinds was rendered and
\* the iterator went past the end-of-input pair.
C1_Witness ==
    /\ Done /\ outcome.ok
    /\ Len(outcome.value) = 3
    /\ idx > Len(document.kids)
    /\ document.kids[Len(document.kids)].rule = "EOI"
    /\ outcome.value[1][1].s = "<h1>" /\ outcome.value[2][1].s = "<p>"
    /\ outcome.value[3][1].s = "<blockquote>\n"

\* C2: the end-to-end document renders to the four strings <h1>Hello</h1>,
\* <hr>, <br>, <p>This is <strong>bold</strong> text.</p>, the blank line
\* after the thematic break being a block of its own.
C2_EndToEnd ==
    (Done /\ input = EndToEnd) =>
        /\ outcome.ok
        /\ Rendered = << <<"<h1>", "H", "e", "l", "l", "o", "</h1>">>,
                         <<"<hr>">>,
                         <<"<br>">>,
                         <<"<p>", "T", "h", "i", "s", SP, "i", "s", SP,
                           "<strong>", "b", "o", "l", "d", "</strong>",
                           SP, "t", "e", "x", "t", ".", "</p>">> >>

Reserved == {"<", ">", "&", DQ, "'"}

\* C3: when str_to_html succeeds, no reserved character < > & " ' copied from
\* the input appears in the output, except inside a link or image target.
C3_NoReservedCharacter ==
    (Done /\ outcome.ok) =>
        \A i \in DOMAIN outcome.value : \A j \in DOMAIN outcome.value[i] :
            outcome.value[i][j].k = "usr" => outcome.value[i][j].s \notin Reserved

\* the number of '#' a line begins with, the first character after the
\* whitespace that follows them, and the text from there to the last
\* character that is no whitespace
HashRun(line) == ScanWhile(line, 1, {"#"}) - 1
AfterRun(line) == ScanWhile(line, HashRun(line) + 1, Whitespace)
HeadingText(line) == TrimEndMatches(SubSeq(line, AfterRun(line), Len(line)), Whitespace)

IsHeadingLine(line) ==
    /\ HashRun(line) \in 1..3
    /\ AfterRun(line) > HashRun(line) + 1
    /\ AfterRun(line) <= Len(line)

\* a line of markers that is no heading: more than three markers, or no
\* whitespace after them
IsWrongHeadingLine(line) ==
    /\ HashRun(line) >= 1
    /\ HashRun(line) > 3 \/ AfterRun(line) = HashRun(line) + 1

\* C4: a line of N = 1..3 '#', whitespace and a text renders <hN>text</hN>,
\* the text being what follows the markers and the whitespace after them,
\* without trailing whitespace, later '#' kept; a line of markers without
\* whitespace after them, or of more than three markers, renders as the
\* text of a paragraph.
C4_Heading ==
    (Done /\ OneLine(input)) =>
        LET line == FirstLine(input)
            n    == HashRun(line)
        IN  /\ IsHeadingLine(line) =>
                  /\ outcome.ok
                  /\ Rendered = << <<(<<"<h1>", "<h2>", "<h3>">>)[n]>>
                                   \o Text(encode_text(HeadingText(line)))
                                   \o <<(<<"</h1>", "</h2>", "</h3>">>)[n]>> >>
            /\ (IsWrongHeadingLine(line) /\ Chars(line) \cap MarkerChars = {}) =>
                  /\ outcome.ok
                  /\ Rendered = << <<"<p>">> \o Text(encode_text(line)) \o <<"</p>">> >>

\* C4 witness: "##  a#" followed by a line end was rendered as a heading
C4_Witness ==
    /\ Done
    /\ input = <<"#", "#", SP, SP, "a", "#", NL>>
    /\ Rendered = << <<"<h2>", "a", "#", "</h2>">> >>

\* the text is d, a non-empty inner text free of marker characters, d
Wrapped(in, d) ==
    /\ Len(in) > 2 * Len(d)
    /\ StartsWith(in, 1, d)
    /\ StartsWith(in, Len(in) - Len(d) + 1, d)
    /\ Chars(SubSeq(in, Len(d) + 1, Len(in) - Len(d))) \cap (MarkerChars \cup {NL, "]"}) = {}

Inner(in, d) == SubSeq(in, Len(d) + 1, Len(in) - Len(d))

\* the line begins like a list item: '-' or '*' and whitespace
ListMarked(in) == Len(in) >= 2 /\ in[1] \in {"-", "*"} /\ in[2] \in HSpace

FormatsAs(d, open, close) ==
    (Done /\ Wrapped(input, d) /\ ~ListMarked(input)) =>
        /\ outcome.ok
        /\ Rendered = << <<"<p>", open>> \o Text(encode_text(Inner(input, d)))
                         \o <<close, "</p>">> >>

\* C5: a paragraph that is a non-empty text t free of marker characters
\* between ** renders <p><strong>t</strong></p>, between * or _
\* <p><em>t</em></p>, between __ <p><u>t</u></p>, between ~~
\* <p><del>t</del></p>, t being escaped and nothing else.
C5_Formatting ==
    /\ FormatsAs(<<"*", "*">>, "<strong>", "</strong>")
    /\ FormatsAs(<<"*">>, "<em>", "</em>")
    /\ FormatsAs(<<"_">>, "<em>", "</em>")
    /\ FormatsAs(<<"_", "_">>, "<u>", "</u>")
    /\ FormatsAs(<<"~", "~">>, "<del>", "</del>")

\* C5 witness: "**a<**" was rendered as bold text with the '<' escaped
C5_Witness ==
    /\ Done
    /\ input = <<"*", "*", "a", "<", "*", "*">>
    /\ Rendered = << <<"<p>", "<strong>", "a", "&lt;", "</strong>", "</p>">> >>

\* the position of a backslash that opens the line or follows one letter
EscPos(in) ==
    IF At(in, 1) = BS THEN 1
    ELSE IF At(in, 1) = "a" /\ At(in, 2) = BS THEN 2
    ELSE 0

\* a text in which no inline construct begins: one '*' at most, no other marker
NoConstruct(s) ==
    /\ Chars(s) \cap ((MarkerChars \ {"*"}) \cup {NL}) = {}
    /\ Cardinality({i \in DOMAIN s : s[i] = "*"}) <= 1

\* the inline pairs of the first line of a document that is one paragraph
FirstLinePairs ==
    IF /\ Len(document.kids) >= 1
       /\ BlockRule(document.kids[1]) = "document_paragraph"
    THEN document.kids[1].kids[1].kids[1].kids
    ELSE <<>>

\* C6: a backslash followed by a punctuation character is one
\* escape_sequence pair whose only inner pair is that character, and
\* renders as that character, escaped, what follows being no emphasis; a
\* backslash followed by whitespace is no escape_sequence pair.
C6_Escape ==
    (Done /\ EscPos(input) > 0 /\ Len(input) > EscPos(input) /\ NL \notin Chars(input)) =>
        LET p    == EscPos(input)
            c    == input[p + 1]
            rest == SubSeq(input, p + 2, Len(input))
        IN  /\ outcome.ok
            /\ (c \in Punct /\ NoConstruct(rest)) =>
                  /\ \E i \in DOMAIN FirstLinePairs :
                        FirstLinePairs[i] =
                            Node("escape_sequence", p, p + 2,
                                 <<Node("character", p + 1, p + 2, <<>>)>>)
                  /\ Rendered = << <<"<p>">> \o SubSeq(input, 1, p - 1)
                                   \o <<EncodeChar(c).s>> \o Text(encode_text(rest))
                                   \o <<"</p>">> >>
            /\ c \in Whitespace =>
                  \A i \in DOMAIN FirstLinePairs :
                      FirstLinePairs[i].rule # "escape_sequence"

\* C6 witness: in "\*a*" the escaped '*' was rendered and opened no emphasis
C6_Witness ==
    /\ Done
    /\ input = <<BS, "*", "a", "*">>
    /\ Rendered = << <<"<p>", "*", "a", "*", "</p>">> >>

\* the text is open, a text, "](", a target, ")": the position of the "]"
\* that closes the text (0 when there is none)
CloseAt(in, a) ==
    LET bs == {b \in a..(Len(in) - 1) :
                  in[b] = "]" /\ in[b + 1] = "(" /\ (b = a \/ in[b - 1] # BS)}
    IN  IF bs = {} THEN 0 ELSE Min(bs)

LinkShaped(in, open) ==
    LET a == Len(open) + 1
        b == CloseAt(in, a)
    IN  /\ StartsWith(in, 1, open)
        /\ NL \notin Chars(in)
        /\ in[Len(in)] = ")"
        /\ b > a /\ b + 2 < Len(in)
        /\ \A i \in a..(b - 1) : in[i] = "]" => (i > a /\ in[i - 1] = BS)
        /\ ")" \notin Chars(SubSeq(in, b + 2, Len(in) - 1))

LinkText(in, open) == SubSeq(in, Len(open) + 1, CloseAt(in, Len(open) + 1) - 1)
LinkUrl(in, open) == SubSeq(in, CloseAt(in, Len(open) + 1) + 2, Len(in) - 1)

\* C7: [text](url) renders <a href="url">text</a> and ![alt](url) renders
\* <img src="url" alt="alt">, text and alt being the whole span between the
\* square brackets, escaped, and url the span between the parentheses, as
\* it is written.
C7_LinkImage ==
    Done =>
        /\ LinkShaped(input, <<"[">>) =>
              /\ outcome.ok
              /\ Rendered = << <<"<p>", "<a href=\"">> \o LinkUrl(input, <<"[">>)
                               \o <<"\">">> \o Text(encode_text(LinkText(input, <<"[">>)))
                               \o <<"</a>", "</p>">> >>
        /\ LinkShaped(input, <<"!", "[">>) =>
              /\ outcome.ok
              /\ Rendered = << <<"<p>", "<img src=\"">> \o LinkUrl(input, <<"!", "[">>)
                               \o <<"\" alt=\"">>
                               \o Text(encode_text(LinkText(input, <<"!", "[">>)))
                               \o <<"\">", "</p>">> >>

\* C7 witness: "[a<](u&v)" was rendered with the text escaped and the
\* target as written
C7_Witness ==
    /\ Done
    /\ input = <<"[", "a", "<", "]", "(", "u", "&", "v", ")">>
    /\ Rendered = << <<"<p>", "<a href=\"", "u", "&", "v", "\">", "a", "&lt;",
                       "</a>", "</p>">> >>

\* the lines of a text
RECURSIVE SplitLines(_)
SplitLines(in) ==
    LET e == LineEnd(in, 1)
    IN  IF e > Len(in) THEN <<in>>
        ELSE <<SubSeq(in, 1, e - 1)>> \o SplitLines(SubSeq(in, e + 1, Len(in)))

\* three or more copies of one of - * _ and nothing else but trailing whitespace
IsBreakLine(line) ==
    LET core == TrimEndMatches(line, HSpace)
    IN  /\ Len(core) >= 3
        /\ core[1] \in {"-", "*", "_"}
        /\ \A i \in DOMAIN core : core[i] = core[1]

BreakLines(in) == SelectSeq(SplitLines(in), IsBreakLine)
Rules == SelectSeq(Rendered, LAMBDA h : h = <<"<hr>">>)

\* C8: outside a code fence, a line of three or more copies of one of - * _
\* and trailing whitespace renders exactly <hr>, and nothing else does: not
\* a run of two, not a run that mixes the characters.
C8_ThematicBreak ==
    (Done /\ BT \notin Chars(input)) =>
        /\ outcome.ok
        /\ Len(Rules) = Len(BreakLines(input))
        /\ \A i \in DOMAIN Rendered :
              "<hr>" \in Chars(Rendered[i]) => Rendered[i] = <<"<hr>">>

\* C8 witness: "___" and trailing spaces rendered <hr>
C8_Witness ==
    /\ Done
    /\ input = <<"_", "_", "_", SP, SP, NL>>
    /\ Rendered = << <<"<hr>">> >>

\* the lines of a text, the empty line after a final line end left out
TextLines(in) ==
    LET ls == SplitLines(in)
    IN  IF Len(ls) > 1 /\ ls[Len(ls)] = <<>> THEN SubSeq(ls, 1, Len(ls) - 1) ELSE ls

\* the text is a fence line, lines none of which begins with a fence, and a
\* closing fence line
FenceShaped(in) ==
    LET ls == TextLines(in)
    IN  /\ Len(ls) >= 3
        /\ StartsWith(ls[1], 1, Fence)
        /\ ls[Len(ls)] = Fence
        /\ \A i \in 2..(Len(ls) - 1) : ~StartsWith(ls[i], 1, Fence)

FenceLang(in) == SubSeq(TextLines(in)[1], 4, Len(TextLines(in)[1]))
FenceBody(in) == Join(SubSeq(TextLines(in), 2, Len(TextLines(in)) - 1), <<NL>>)

\* C9: a fenced code block renders <pre><code class="language-LANG">BODY
\* </code></pre>, BODY being the escaped text between the fence lines, no
\* markup in it interpreted; without a language tag the class attribute is
\* left out and BODY is still the fenced text.
C9_CodeFence ==
    (Done /\ FenceShaped(input)) =>
        /\ outcome.ok
        /\ Rendered =
              << <<"<pre><code">>
                 \o (IF FenceLang(input) = <<>> THEN <<>>
                     ELSE <<" class=\"language-">> \o FenceLang(input) \o <<"\"">>)
                 \o <<">">> \o Text(encode_text(FenceBody(input)))
                 \o <<"</code></pre>">> >>

\* what the claim says of a quote line's content, for the contents whose
\* rendering the other claims fix: none, bold text, text without markers
QuoteLineKnown(c) ==
    c = <<>> \/ Wrapped(c, <<"*", "*">>) \/ Chars(c) \cap MarkerChars = {}

QuoteLineHtml(c) ==
    IF c = <<>> THEN <<"<p></p>">>
    ELSE IF Wrapped(c, <<"*", "*">>)
    THEN <<"<p>", "<strong>">> \o Text(encode_text(Inner(c, <<"*", "*">>)))
         \o <<"</strong>", "</p>">>
    ELSE <<"<p>">> \o Text(encode_text(c)) \o <<"</p>">>

QuoteShaped(in) ==
    \A i \in DOMAIN TextLines(in) :
        /\ At(TextLines(in)[i], 1) = ">"
        /\ QuoteLineKnown(Tail(TextLines(in)[i]))

\* C10: k >= 1 consecutive lines that begin with '>' render one <blockquote>
\* of k <p> elements in the order of the lines, each wrapping the rendered
\* content of its line, <p></p> for a line with nothing after the marker.
C10_Quote ==
    (Done /\ QuoteShaped(input)) =>
        /\ outcome.ok
        /\ Rendered =
              << <<"<blockquote>\n">>
                 \o Join([i \in DOMAIN TextLines(input) |->
                             QuoteLineHtml(Tail(TextLines(input)[i]))], <<"\n">>)
                 \o <<"\n</blockquote>">> >>

\* C10 witness: the three lines ">a", ">" and ">**a**" were rendered
C10_Witness ==
    /\ Done
    /\ input = <<">", "a", NL, ">", NL, ">", "*", "*", "a", "*", "*">>
    /\ Rendered = << <<"<blockquote>\n", "<p>", "a", "</p>", "\n", "<p></p>", "\n",
                       "<p>", "<strong>", "a", "</strong>", "</p>", "\n</blockquote>">> >>

\* the marker token of a list line ends at MarkerEnd: '-' or '*', or digits
\* and the '.' after them
MarkerEnd(line) ==
    IF At(line, 1) \in {"-", "*"} THEN 1 ELSE ScanWhile(line, 1, Digits)

Family(line) == IF At(line, 1) \in {"-", "*"} THEN "ul" ELSE "ol"

IsItemLine(line) ==
    /\ \/ At(line, 1) \in {"-", "*"}
       \/ (At(line, 1) \in Digits /\ At(line, MarkerEnd(line)) = ".")
    /\ At(line, MarkerEnd(line) + 1) \in HSpace

\* the line without its marker token and the whitespace after it, trimmed
ItemText(line) ==
    Trim(SubSeq(line, ScanWhile(line, MarkerEnd(line) + 1, HSpace), Len(line)))

ItemHtml(line) == <<"<li>">> \o Text(encode_text(ItemText(line))) \o <<"</li>">>

\* every line is a list line, all of the family of the first
ListShaped(in) ==
    \A i \in DOMAIN TextLines(in) :
        /\ IsItemLine(TextLines(in)[i])
        /\ Family(TextLines(in)[i]) = Family(TextLines(in)[1])

ListHtml(ls) ==
    <<IF Family(ls[1]) = "ul" THEN "<ul>\n" ELSE "<ol>\n">>
    \o Join([i \in DOMAIN ls |-> ItemHtml(ls[i])], <<"\n">>)
    \o <<IF Family(ls[1]) = "ul" THEN "\n</ul>" ELSE "\n</ol>">>

\* C11: every list item renders <li>T</li>, T being the escaped line without
\* its one marker token and the whitespace after it, trimmed; an unordered
\* list renders <ul>, an ordered list <ol>, the items joined by a line end in
\* the order of the lines.
C11_ListItems ==
    (Done /\ ListShaped(input)) =>
        /\ outcome.ok
        /\ Rendered = <<ListHtml(TextLines(input))>>

\* C11 witness: an unordered list of three items, one with two spaces after
\* the marker and a trailing space, one with a character to escape.
C11_Witness ==
    /\ Done /\ outcome.ok
    /\ input = <<"-", SP, SP, "a", SP, NL, "*", SP, "a", "<", NL, "-", SP, "a", SP, "b">>
    /\ Rendered = << <<"<ul>\n", "<li>", "a", "</li>", "\n",
                       "<li>", "a", "&lt;", "</li>", "\n",
                       "<li>", "a", SP, "b", "</li>", "\n</ul>">> >>

\* every line is a list line, of either family
ItemLinesOnly(in) == \A i \in DOMAIN TextLines(in) : IsItemLine(TextLines(in)[i])

\* the number of maximal runs of lines of one family
FamilyRuns(ls) ==
    1 + Cardinality({i \in 2..Len(ls) : Family(ls[i]) # Family(ls[i - 1])})

\* the list pairs of the document and their items, in order
ListBlocks == [i \in DOMAIN TopBlocks |-> TopBlocks[i].kids[1]]
ListItems == Flatten([i \in DOMAIN ListBlocks |-> ListBlocks[i].kids])

ItemRule(rule) ==
    CASE rule = "document_unordered_list" -> "unordered_list_item"
      [] rule = "document_ordered_list" -> "ordered_list_item"
      [] OTHER -> "none"

\* C12: consecutive list lines of one family are one list block with one
\* item per line, '-' and '*' lines mixing in an unordered list; a change of
\* family ends the block and starts another, so no block holds items of both
\* families.
C12_ListBlocks ==
    (pc # "start" /\ ItemLinesOnly(input)) =>
        /\ document # NoPair
        /\ Len(ListBlocks) = FamilyRuns(TextLines(input))
        /\ Len(ListItems) = Len(TextLines(input))
        /\ \A k \in DOMAIN ListItems :
              TrimEndMatches(as_str(input, ListItems[k]), {NL}) = TextLines(input)[k]
        /\ \A i \in DOMAIN ListBlocks :
              /\ ItemRule(ListBlocks[i].rule) # "none"
              /\ ListBlocks[i].kids # <<>>
              /\ \A k \in DOMAIN ListBlocks[i].kids :
                    /\ ListBlocks[i].kids[k].rule = ItemRule(ListBlocks[i].rule)
                    /\ Family(as_str(input, ListBlocks[i].kids[k]))
                          = (IF ListBlocks[i].rule = "document_unordered_list"
                             THEN "ul" ELSE "ol")
              /\ i > 1 => ListBlocks[i].rule # ListBlocks[i - 1].rule

\* C12 witness: a '-' line, a '*' line and a digit line were parsed into an
\* unordered list of two items followed by an ordered list of one.
C12_Witness ==
    /\ pc = "render"
    /\ input = <<"-", SP, "a", NL, "*", SP, "a", "<", NL, "1", ".", SP, "a">>
    /\ Len(ListBlocks) = 2
    /\ ListBlocks[1].rule = "document_unordered_list" /\ Len(ListBlocks[1].kids) = 2
    /\ ListBlocks[2].rule = "document_ordered_list" /\ Len(ListBlocks[2].kids) = 1

\* a non-blank line that has the shape of no more specific block
IsParaLine(line) ==
    /\ line # <<>>
    /\ line[1] \notin {"#", ">", BT}
    /\ ~IsBreakLine(line)
    /\ ~IsItemLine(line)

\* a blank line or a line that has the shape of a more specific block
IsOtherLine(line) ==
    \/ line = <<>>
    \/ IsHeadingLine(line)
    \/ IsBreakLine(line)
    \/ IsItemLine(line)
    \/ At(line, 1) = ">"

ParaDoc(in) ==
    \A i \in DOMAIN TextLines(in) :
        IsParaLine(TextLines(in)[i]) \/ IsOtherLine(TextLines(in)[i])

\* the maximal runs of consecutive paragraph lines, cur being the run open so far
RECURSIVE ParaRuns(_, _)
ParaRuns(ls, cur) ==
    IF ls = <<>> THEN (IF cur = <<>> THEN <<>> ELSE <<cur>>)
    ELSE IF IsParaLine(Head(ls)) THEN ParaRuns(Tail(ls), Append(cur, Head(ls)))
    ELSE (IF cur = <<>> THEN <<>> ELSE <<cur>>) \o ParaRuns(Tail(ls), <<>>)

\* the rendered inline content of one line taken on its own
LineContent(line) ==
    Text(process_paragraph_text(line, Match("paragraph_text", line, 1).ns[1]).html)

ParaHtml(run) ==
    <<"<p>">> \o Flatten([i \in DOMAIN run |-> LineContent(run[i])]) \o <<"</p>">>

Paragraphs == SelectSeq(Rendered, LAMBDA h : h # <<>> /\ h[1] = "<p>")

\* C13: a paragraph is a maximal run of consecutive non-blank lines that have
\* the shape of no more specific block, ended by a blank line or by a line of
\* a more specific block; it renders as one <p>...</p> holding the rendered
\* inline content of its lines in order, the line ends between them
\* contributing no character.
C13_Paragraph ==
    (Done /\ ParaDoc(input)) =>
        /\ outcome.ok
        /\ Paragraphs = [i \in DOMAIN ParaRuns(TextLines(input), <<>>) |->
                            ParaHtml(ParaRuns(TextLines(input), <<>>)[i])]

\* C13 witness: two lines and a thematic break rendered as one paragraph of
\* the two lines run together, followed by <hr>.
C13_Witness ==
    /\ Done /\ outcome.ok
    /\ input = <<"a", SP, NL, "b", "<", NL, "-", "-", "-">>
    /\ Rendered = << <<"<p>", "a", SP, "b", "&lt;", "</p>">>, <<"<hr>">> >>

KeptPairs == SelectSeq(document.kids, Keep)
Conversions == [i \in DOMAIN KeptPairs |-> convert_to_html(input, KeptPairs[i])]

\* C15: a call converts the whole document or fails as a unit. When the
\* parse fails the call returns that error; when every top-level block
\* converts it returns all their strings in order; when one fails it returns
\* the error of the first that fails and no string of the blocks before it,
\* and converts no block after it.
C15_FailAsUnit ==
    Done =>
        IF document = NoPair
        THEN /\ ~outcome.ok /\ outcome.value = <<>> /\ results = <<>>
             /\ outcome.err \in {ParseError(<<"pest error">>), ParseError(<<"Empty document">>)}
        ELSE IF AllGood(Conversions)
        THEN /\ outcome.ok
             /\ outcome.value = Htmls(Conversions)
        ELSE /\ ~outcome.ok
             /\ outcome.value = <<>>
             /\ outcome.err = FirstBad(Conversions).err
             /\ Len(passed) = Min({i \in DOMAIN Conversions : ~Conversions[i].ok})

\* C15 witness: the first block was converted, the second failed, and the
\* call returned the error alone.
C15_Witness ==
    /\ Done /\ ~outcome.ok
    /\ results # <<>>
    /\ outcome.value = <<>>
    /\ outcome.err = ParseError(<<"Unknown rule: ", "inline">>)
    /\ Len(passed) = 2

\* the kinds the block dispatch and the inline dispatch have a template for
BlockKinds ==
    {"document_block", "document_heading", "h1_heading", "h2_heading", "h3_heading",
     "document_paragraph", "document_quote", "quote_line", "paragraph_text",
     "document_unordered_list", "document_ordered_list", "unordered_list_item",
     "ordered_list_item", "code_fence", "thematic_break", "blank_line", "EOI"}
InlineKinds ==
    {"plain_text", "inline_code", "link", "image", "escape_sequence"} \cup FormatRules

\* the kinds without a template among the inline pairs of a paragraph
UnknownInline(para) ==
    UNION {{para.kids[i].kids[j].rule : j \in DOMAIN para.kids[i].kids} :
              i \in DOMAIN para.kids}
        \ InlineKinds

\* the kinds without a template met while the top-level pair is dispatched:
\* the pair itself, the block inside a document_block, the inline pairs of a
\* paragraph, the content of a quote line
UnknownKinds(top) ==
    IF top.rule \notin BlockKinds THEN {top.rule}
    ELSE IF top.rule # "document_block" \/ top.kids = <<>> THEN {}
    ELSE IF top.kids[1].rule \notin BlockKinds THEN {top.kids[1].rule}
    ELSE IF top.kids[1].rule = "document_paragraph" THEN UnknownInline(top.kids[1])
    ELSE IF top.kids[1].rule = "document_quote"
    THEN {top.kids[1].kids[i].kids[1].rule :
              i \in {j \in DOMAIN top.kids[1].kids : top.kids[1].kids[j].kids # <<>>}}
             \ BlockKinds
    ELSE {}

\* C16: at the block dispatch and at the inline dispatch alike, a pair of a
\* kind without a template makes the call fail with an error whose message
\* names that kind; no such pair is rendered as escaped text or as nothing.
C16_UnknownKindIsError ==
    (Done /\ document # NoPair) =>
        \A i \in DOMAIN KeptPairs :
            (UnknownKinds(KeptPairs[i]) # {} /\ \A j \in 1..(i - 1) : Conversions[j].ok) =>
                /\ ~outcome.ok
                /\ outcome.err[Len(outcome.err)] \in UnknownKinds(KeptPairs[i])

\* C17: no text drives a call into a panic: every call that ends has
\* returned a value, a vector or an error, and the two places that unwrap
\* the first inner pair of a block wrapper or heading container always find
\* one.
C17_NoPanic ==
    /\ pc # "panicked"
    /\ Done => outcome # Pending
    /\ pc # "start" =>
          \A i \in DOMAIN document.kids :
              document.kids[i].rule \in {"document_block", "document_heading"} =>
                  HasInner(document.kids[i])

\* C17 witness: the three blocks of a heading, a paragraph and a quote went
\* through the unwrap of the block wrapper and the call returned their strings.
C17_Witness ==
    /\ Done /\ outcome.ok
    /\ input = <<"#", SP, "a", NL, "a", NL, ">", "a">>
    /\ passed = <<"document_block", "document_block", "document_block">>
    /\ \A i \in 1..3 : HasInner(document.kids[i])
    /\ Len(outcome.value) = 3

\* a text escaped once
EscapedOnce(t) ==
    [i \in DOMAIN t |->
        CASE t[i] = "&" -> "&amp;" [] t[i] = "<" -> "&lt;" [] t[i] = ">" -> "&gt;" [] OTHER -> t[i]]

\* C18: a leaf text is escaped exactly once wherever it stands: in a
\* paragraph, in a quote line, in formatting (also inside a quote line), in a
\* heading, a list item, a link text or a code body. A text that already
\* looks like an entity has its '&' escaped once, and the tags around it are
\* not escaped.
C18_EscapedOnce ==
    \A pl \in Places, t \in EntityTexts :
        (Done /\ input = pl.pre \o t \o pl.post) =>
            /\ outcome.ok
            /\ Rendered = <<pl.open \o EscapedOnce(t) \o pl.close>>

\* C18 witness: the quote line ">&amp;" rendered with one escaping of its '&'
C18_Witness ==
    /\ Done /\ outcome.ok
    /\ input = <<">", "&", "a", "m", "p", ";">>
    /\ Rendered = << <<"<blockquote>\n", "<p>", "&amp;", "a", "m", "p", ";", "</p>",
                       "\n</blockquote>">> >>

\* where the double delimiter d that opens the line closes: the first d after
\* at least one character of content, 0 when there is none
DoubleClose(in, d) ==
    LET c == {i \in 4..Len(in) : StartsWith(in, i, d)}
    IN  IF c = {} \/ StartsWith(in, 3, d) THEN 0 ELSE Min(c)

DoubleRule(d) == IF d = <<"*", "*">> THEN "bold_formatting" ELSE "underline_formatting"

\* C19: a line that opens with ** and has a closing ** begins with one bold
\* pair running from the opening to the first closing delimiter, and a line
\* that opens with __ and has a closing __ begins with one underline pair;
\* the first delimiter character never opens an italic pair there.
C19_DoubleBeforeSingle ==
    \A d \in {<<"*", "*">>, <<"_", "_">>} :
        (/\ pc # "start"
         /\ OneLine(input)
         /\ StartsWith(input, 1, d)
         /\ DoubleClose(input, d) # 0
         /\ ~IsBreakLine(FirstLine(input))) =>
            /\ FirstLinePairs # <<>>
            /\ FirstLinePairs[1].rule = DoubleRule(d)
            /\ FirstLinePairs[1].s = 1
            /\ FirstLinePairs[1].e = DoubleClose(input, d) + 2
            /\ \A i \in DOMAIN FirstLinePairs :
                  FirstLinePairs[i].rule = "italic_formatting" =>
                      FirstLinePairs[i].s >= DoubleClose(input, d) + 2

\* C19 witness: "__a<__" was parsed into one underline pair
C19_Witness ==
    /\ pc = "render"
    /\ input = <<"_", "_", "a", "<", "_", "_">>
    /\ Len(FirstLinePairs) = 1
    /\ FirstLinePairs[1].rule = "underline_formatting"
    /\ as_str(input, FirstLinePairs[1].kids[1]) = <<"a", "<">>

\* an inline pair without the content its template needs
EmptyContent(k) ==
    \/ k.rule \in FormatRules /\ k.kids = <<>>
    \/ /\ k.rule = "inline_code"
       /\ ~(Len(as_str(input, k)) >= 2 /\ as_str(input, k)[1] = BT
            /\ as_str(input, k)[Len(as_str(input, k))] = BT)
    \/ k.rule = "escape_sequence" /\ k.kids = <<>>
    \/ k.rule \in {"link", "image"} /\ Len(k.kids) < 2

\* the top-level pair is a paragraph one of whose inline pairs lacks its content
HasEmptyContent(top) ==
    /\ top.rule = "document_block" /\ top.kids # <<>>
    /\ top.kids[1].rule = "document_paragraph"
    /\ \E i \in DOMAIN top.kids[1].kids :
          \E j \in DOMAIN top.kids[1].kids[i].kids :
              EmptyContent(top.kids[1].kids[i].kids[j])

\* C20: a formatting pair without a content pair, an inline-code pair whose
\* delimiters cannot be stripped, an escape sequence without its character
\* and a link or image without its text or URL pair each make the call fail;
\* none is rendered as an empty element.
C20_EmptyContentIsError ==
    (Done /\ document # NoPair) =>
        \A i \in DOMAIN KeptPairs :
            (HasEmptyContent(KeptPairs[i]) /\ \A j \in 1..(i - 1) : Conversions[j].ok) =>
                ~outcome.ok

\* the HTML strings written one after the other, a line end after each
OutputOf(value) == Flatten([i \in DOMAIN value |-> Text(value[i]) \o <<NL>>])

\* a step changes a file only if it is the output file and str_to_html has
\* returned the strings of the whole input
WritesAfterSuccess ==
    fs' # fs =>
        /\ fpc \in {"convert", "write"}
        /\ pc = "done" /\ outcome.ok
        /\ input = content
        /\ \A p \in Paths \ {outPath} : fs'[p] = fs[p]

\* C21: convert_file_to_html touches the output file only after the whole
\* input has been read and converted: no step before that creates, truncates
\* or writes any file, so when the read or the conversion fails the output
\* path is as it was; and when the call returns Ok the output file holds
\* exactly the HTML strings in block order, each followed by a line end.
C21_OutputAfterSuccess ==
    /\ [][WritesAfterSuccess]_vars
    /\ []((fpc = "returned" /\ ret.ok) =>
            /\ outcome.ok
            /\ fs[outPath] = FileOf(OutputOf(outcome.value)))
    /\ []((fpc = "returned" /\ ~ret.ok /\ ~outcome.ok) => fs \in FileSystems)

\* C21 witness: the second line of the input could not be read; the call
\* returned the error and the older output file is as it was.
C21_Witness ==
    /\ fpc = "returned"
    /\ ret = IoError("read input")
    /\ content = <<"a", NL>>
    /\ pc = "idle"
    /\ outPath = "out"
    /\ fs["out"] = FileOf(OldOutput)

====
